---- MODULE Spec2Model ----
(***************************************************************************)
(* Onacc Climate Forecast Analysis: the Streamlit script in its two        *)
(* variants, src/app.py and src/main.py.  One script run is modelled as a  *)
(* sequence of steps of the submission handler (the "if submitted:" block) *)
(* preceded by the spreadsheet import block.                               *)
(*                                                                         *)
(* Texts are sequences of one-character strings, so that str.split and     *)
(* str.strip are computed character by character as Python computes them.  *)
(***************************************************************************)
EXTENDS Integers, Sequences, FiniteSets, TLC

VARIABLES
    variant,       \* "app" (src/app.py) or "main" (src/main.py)
    uploaded_file, \* the spreadsheet in the file uploader, <<>> or <<f>>: whether it
                   \* reads and its columns (its rows are in the session once imported)
    session,       \* st.session_state: coordinates, selected_locations
    form,          \* the values of the form's widgets at the submission
    pc,            \* position of the script run
    coords_list,   \* the handler's coords_list
    localite_map,  \* the handler's localite_map, a set of <<lat, lon, name>>
    base_params,   \* the handler's base_params (with the endpoint), <<>> or <<p>>
    requests,      \* the outbound requests.get calls of this run
    response,      \* the HTTP response received, <<>> or <<r>>
    data,          \* response.json(), <<>> or <<json value>>
    dfs,           \* the per-location tables
    df,            \* the final table, <<>> or <<table>>
    messages,      \* st.warning / st.error calls of this run, in order
    chart,         \* the table handed to st.plotly_chart, <<>> or <<table>>
    exports        \* the tables handed to export_data

vars == <<variant, uploaded_file, session, form, pc, coords_list, localite_map, base_params,
          requests, response, data, dfs, df, messages, chart, exports>>

----------------------------------------------------------------------------
(* Bounds of the model *)

\* the last day a date of the form's date range can be
MaxDate == 3

\* longest coordinate text typed into the form, in the parsing specification
MaxTextLen == 7
\* longest coordinate text typed into the form, in the pipeline specifications
MaxTypedLen == 1
\* most rows of an imported spreadsheet
MaxRows == 2
\* most elements of a list response
MaxItems == 2
\* most dates of one location's daily.time
MaxDays == 1

\* the characters of a coordinate text: two digits, the comma and the blank
Chars == {"1", "2", ",", " "}

RECURSIVE TextsOfLen(_)
TextsOfLen(n) ==
    IF n = 0 THEN {<<>>}
    ELSE {Append(t, c) : t \in TextsOfLen(n - 1), c \in Chars}

TextsUpTo(n) == UNION {TextsOfLen(k) : k \in 0..n}

----------------------------------------------------------------------------
(* Python's str.split(sep), str.strip() and str.join *)

Whitespace == {" "}

\* the least index at which sep occurs in s, 0 when it does not
FindSep(s, sep) ==
    LET hits == {i \in 1..(Len(s) - Len(sep) + 1) :
                    SubSeq(s, i, i + Len(sep) - 1) = sep}
    IN IF hits = {} THEN 0 ELSE CHOOSE i \in hits : \A j \in hits : i <= j

RECURSIVE split(_, _)
split(s, sep) ==
    LET i == FindSep(s, sep)
    IN IF i = 0 THEN <<s>>
       ELSE <<SubSeq(s, 1, i - 1)>> \o split(SubSeq(s, i + Len(sep), Len(s)), sep)

RECURSIVE lstrip(_)
lstrip(s) == IF s # <<>> /\ Head(s) \in Whitespace THEN lstrip(Tail(s)) ELSE s

RECURSIVE rstrip(_)
rstrip(s) ==
    IF s # <<>> /\ s[Len(s)] \in Whitespace THEN rstrip(SubSeq(s, 1, Len(s) - 1)) ELSE s

strip(s) == rstrip(lstrip(s))

RECURSIVE join(_, _)
join(sep, parts) ==
    IF parts = <<>> THEN <<>>
    ELSE IF Len(parts) = 1 THEN parts[1]
    ELSE parts[1] \o sep \o join(sep, Tail(parts))

PairSep == <<",", " ">>
TokenSep == <<",">>

----------------------------------------------------------------------------
(* The submission handler: coordinate parsing *)

\* the mutant of SelectNonEmpty that keeps the blank fragments
RECURSIVE SelectNonEmpty_KeepBlank(_)
SelectNonEmpty_KeepBlank(ps) ==
    IF ps = <<>> THEN <<>>
    ELSE <<strip(Head(ps))>> \o SelectNonEmpty_KeepBlank(Tail(ps))

\* [pair.strip() for pair in ... if pair.strip()]
RECURSIVE SelectNonEmpty(_)
SelectNonEmpty(ps) ==
    IF ps = <<>> THEN <<>>
    ELSE IF strip(Head(ps)) # <<>>
         THEN <<strip(Head(ps))>> \o SelectNonEmpty(Tail(ps))
         ELSE SelectNonEmpty(Tail(ps))

\* pairs = [pair.strip() for pair in coords.split(", ") if pair.strip()]
pairs(coords) == SelectNonEmpty(split(coords, PairSep))

\* the mutant of PairIsValid that accepts a fragment of two tokens or more
PairIsValid_AtLeastTwo(pair) == Len(split(pair, TokenSep)) >= 2

\* not (len(parts) != 2)
PairIsValid(pair) == Len(split(pair, TokenSep)) = 2

\* the index of the first pair the loop rejects, 0 when it rejects none
FirstInvalid(ps) ==
    LET bad == {i \in 1..Len(ps) : ~PairIsValid(ps[i])}
    IN IF bad = {} THEN 0 ELSE CHOOSE i \in bad : \A j \in bad : i <= j

\* the mutant of ExtendAll that keeps the tokens untrimmed
RECURSIVE ExtendAll_NoStrip(_)
ExtendAll_NoStrip(ps) ==
    IF ps = <<>> THEN <<>>
    ELSE LET parts == split(Head(ps), TokenSep)
         IN <<parts[1], parts[2]>> \o ExtendAll_NoStrip(Tail(ps))

\* coords_list.extend([parts[0].strip(), parts[1].strip()]) over the pairs
RECURSIVE ExtendAll(_)
ExtendAll(ps) ==
    IF ps = <<>> THEN <<>>
    ELSE LET parts == split(Head(ps), TokenSep)
         IN <<strip(parts[1]), strip(parts[2])>> \o ExtendAll(Tail(ps))

----------------------------------------------------------------------------
(* JSON values of a response body, and pandas tables *)

JNull == [type |-> "null"]
JDict(f) == [type |-> "dict", items |-> f]
JList(s) == [type |-> "list", items |-> s]

isdict(v) == v.type = "dict"
islist(v) == v.type = "list"
\* key in d, for a dict d
haskey(d, key) == key \in DOMAIN d.items

\* the three forecast modes of the radio widget
Weather == "Prévisions météo"
Seasonal == "Prévisions saisonnières"
Climate == "Projections climatiques"
Modes == {Weather, Seasonal, Climate}

\* the API's names of the three variables, in the order the code reads them
ApiParams == <<"temperature_2m_max", "temperature_2m_min", "precipitation_sum">>
\* the table's column of each variable, by position
DfColumns == <<"Température max (°C)", "Température min (°C)", "Précipitations (mm)">>

Mean(key) ==
    CASE key = "temperature_2m_max" -> "temperature_2m_max_mean"
      [] key = "temperature_2m_min" -> "temperature_2m_min_mean"
      [] key = "precipitation_sum" -> "precipitation_sum_mean"

\* a table: its columns in order, and its rows, each a function of the columns
EmptyFrame == [columns |-> <<>>, rows |-> <<>>]

InSeq(x, s) == \E i \in 1..Len(s) : s[i] = x

\* df[column] = values, values a list as long as the table (or a scalar)
SetColumn(frame, column, values, scalar) ==
    [columns |-> IF InSeq(column, frame.columns) THEN frame.columns
                 ELSE Append(frame.columns, column),
     rows |-> [i \in 1..Len(frame.rows) |->
                 [c \in (DOMAIN frame.rows[i]) \cup {column} |->
                     IF c = column THEN (IF scalar THEN values ELSE values[i])
                     ELSE frame.rows[i][c]]]]

\* pd.DataFrame({"Localite": localite, "Date": ..., "Latitude": lat, "Longitude": lon})
BaseFrame(time_data, lat, lon, localite) ==
    [columns |-> <<"Localite", "Date", "Latitude", "Longitude">>,
     rows |-> [i \in 1..Len(time_data) |->
                 [Localite |-> localite, Date |-> time_data[i],
                  Latitude |-> lat, Longitude |-> lon]]]

\* the outcome of a call: a value, or the exception it raised
Ok(v) == [ok |-> TRUE, value |-> v]
Raise(exc, text) == [ok |-> FALSE, exc |-> exc, text |-> text]

----------------------------------------------------------------------------
(* The utility functions *)

\* the columns of the three variables, filled as app.py fills them:
\* df[df_column] = data["daily"].get(api_param, None)
RECURSIVE FillColumnsApp(_, _, _)
FillColumnsApp(frame, daily, k) ==
    IF k > Len(ApiParams) THEN frame
    ELSE FillColumnsApp(
            IF haskey(daily, ApiParams[k])
            THEN SetColumn(frame, DfColumns[k], daily.items[ApiParams[k]], FALSE)
            ELSE SetColumn(frame, DfColumns[k], "None", TRUE),
            daily, k + 1)

\* the columns of the three variables, filled as main.py fills them: from the
\* "_mean" keys in seasonal mode, from the plain keys otherwise, and only when
\* the key is in data["daily"]
RECURSIVE FillColumnsMain(_, _, _, _)
FillColumnsMain(frame, daily, mode, k) ==
    IF k > Len(ApiParams) THEN frame
    ELSE LET key == IF mode = Seasonal THEN Mean(ApiParams[k]) ELSE ApiParams[k]
         IN FillColumnsMain(
                IF haskey(daily, key)
                THEN SetColumn(frame, DfColumns[k], daily.items[key], FALSE)
                ELSE frame,
                daily, mode, k + 1)

\* create_dataframe of app.py: a missing "daily" or "time" key is a KeyError,
\* which the function turns into a ValueError
create_dataframe_app(d, lat, lon, localite, mode) ==
    IF ~isdict(d) THEN Raise("TypeError", "object is not subscriptable")
    ELSE IF ~haskey(d, "daily") \/ ~haskey(d.items["daily"], "time")
    THEN Raise("ValueError", "Données temporelles manquantes dans la réponse API")
    ELSE Ok(FillColumnsApp(BaseFrame(d.items["daily"].items["time"], lat, lon, localite),
                           d.items["daily"], 1))

\* create_dataframe of main.py: the KeyError is not caught
create_dataframe_main(d, lat, lon, localite, mode) ==
    IF ~isdict(d) THEN Raise("TypeError", "object is not subscriptable")
    ELSE IF ~haskey(d, "daily") THEN Raise("KeyError", "'daily'")
    ELSE IF ~haskey(d.items["daily"], "time") THEN Raise("KeyError", "'time'")
    ELSE Ok(FillColumnsMain(BaseFrame(d.items["daily"].items["time"], lat, lon, localite),
                            d.items["daily"], mode, 1))

create_dataframe(v, d, lat, lon, localite, mode) ==
    IF v = "app" THEN create_dataframe_app(d, lat, lon, localite, mode)
    ELSE create_dataframe_main(d, lat, lon, localite, mode)

\* the status codes error_mapping has a message for
MappedCodes == {400, 401, 403, 404, 500}

error_mapping(status_code) ==
    CASE status_code = 400 -> "Requête invalide - Vérifiez les paramètres"
      [] status_code = 401 -> "Authentification requise"
      [] status_code = 403 -> "Accès refusé"
      [] status_code = 404 -> "Endpoint introuvable"
      [] status_code = 500 -> "Erreur serveur"

\* error_mapping.get(status_code, f"Erreur HTTP {status_code}")
MappedOrGeneric(status_code) ==
    IF status_code \in MappedCodes THEN [text |-> error_mapping(status_code)]
    ELSE [text |-> "Erreur HTTP {status_code}", code |-> status_code]

\* get_api_error: the text, the code when the text is the generic one, and
\* the reason appended after " : " when the body is a dict
get_api_error(response_data, status_code) ==
    IF isdict(response_data)
    THEN MappedOrGeneric(status_code) @@
         [reason |-> IF haskey(response_data, "reason")
                     THEN response_data.items["reason"] ELSE "Erreur inconnue"]
    ELSE MappedOrGeneric(status_code)

\* the mutant of add_metadata whose second test is an "if" and not an "elif",
\* with the duration column written in every mode but the seasonal one
add_metadata_WrongBranch(frame, mode, params) ==
    LET stamped == SetColumn(frame, "Type de prévision", mode, TRUE)
        modelled == IF mode = Climate
                    THEN SetColumn(stamped, "Modèle climatique", params.model, TRUE)
                    ELSE stamped
    IN IF mode # Seasonal
       THEN SetColumn(modelled, "Durée prévision", params.duration, TRUE)
       ELSE modelled

\* add_metadata(df, mode, params)
add_metadata(frame, mode, params) ==
    LET stamped == SetColumn(frame, "Type de prévision", mode, TRUE)
    IN IF mode = Climate THEN SetColumn(stamped, "Modèle climatique", params.model, TRUE)
       ELSE IF mode = Seasonal
            THEN SetColumn(stamped, "Durée prévision", params.duration, TRUE)
            ELSE stamped

\* the columns of the frames, in the order of their first appearance
RECURSIVE UnionColumns(_, _)
UnionColumns(cols, more) ==
    IF more = <<>> THEN cols
    ELSE UnionColumns(IF InSeq(Head(more), cols) THEN cols ELSE Append(cols, Head(more)),
                      Tail(more))

RECURSIVE AllColumns(_)
AllColumns(frames) ==
    IF frames = <<>> THEN <<>>
    ELSE UnionColumns(Head(frames).columns, AllColumns(Tail(frames)))

RECURSIVE AllRows(_)
AllRows(frames) ==
    IF frames = <<>> THEN <<>> ELSE Head(frames).rows \o AllRows(Tail(frames))

\* the mutant of concat that makes an empty table of no frame
concat_EmptyOk(frames) ==
    IF frames = <<>> THEN Ok(EmptyFrame)
    ELSE LET cols == AllColumns(frames)
             rows == AllRows(frames)
         IN Ok([columns |-> cols,
                rows |-> [i \in 1..Len(rows) |->
                            [c \in {cols[j] : j \in 1..Len(cols)} |->
                                IF c \in DOMAIN rows[i] THEN rows[i][c] ELSE "NaN"]]])

\* pd.concat(dfs, ignore_index=True): the rows in order, over the union of the
\* columns, NaN where a frame lacks a column; no frame at all is a ValueError
concat(frames) ==
    IF frames = <<>> THEN Raise("ValueError", "No objects to concatenate")
    ELSE LET cols == AllColumns(frames)
             rows == AllRows(frames)
         IN Ok([columns |-> cols,
                rows |-> [i \in 1..Len(rows) |->
                            [c \in {cols[j] : j \in 1..Len(cols)} |->
                                IF c \in DOMAIN rows[i] THEN rows[i][c] ELSE "NaN"]]])

----------------------------------------------------------------------------
(* The submission handler: locality index, request, normalization *)

\* coords_list[::2] and coords_list[1::2]
Latitudes(cl) == [i \in 1..(Len(cl) \div 2) |-> cl[2 * i - 1]]
Longitudes(cl) == [i \in 1..(Len(cl) \div 2) |-> cl[2 * i]]

\* localite_map[(row['latitude'], row['longitude'])] = row['localite'] over the
\* rows of the session's selected_locations, coordinates stripped: a later row
\* replaces an earlier row of the same key
BuildLocaliteMap(rows) ==
    LET key(i) == <<strip(rows[i].latitude), strip(rows[i].longitude)>>
        last(k) == CHOOSE i \in 1..Len(rows) :
                      key(i) = k /\ \A j \in 1..Len(rows) : key(j) = k => j <= i
    IN [k \in {key(i) : i \in 1..Len(rows)} |-> rows[last(k)].localite]

\* the mutant of LocaliteOf that looks the pair up as (longitude, latitude)
LocaliteOf_Swapped(lmap, lat, lon) ==
    IF <<lon, lat>> \in DOMAIN lmap THEN lmap[<<lon, lat>>] ELSE "N/A"

\* localite_map.get((lat, lon), 'N/A')
LocaliteOf(lmap, lat, lon) ==
    IF <<lat, lon>> \in DOMAIN lmap THEN lmap[<<lat, lon>>] ELSE "N/A"

\* int(forecast_length.split()[0])
ForecastMonths(forecast_length) ==
    CASE forecast_length = "45 days" -> 45
      [] forecast_length = "3 months" -> 3
      [] forecast_length = "6 months" -> 6
      [] forecast_length = "9 months" -> 9

\* forecast_days as the form of app.py computes it
FormForecastDays(f) ==
    IF f.forecast_type = "Jours fixes" THEN f.forecast_days
    ELSE IF f.date_range # <<>> THEN f.date_range[2] - f.date_range[1] + 1 ELSE 1

\* the longest forecast of main.py, sent when no fixed duration is chosen
MaxForecastDays == 16

\* the "daily" list main.py builds from the three checkboxes
RequestedDaily(f) ==
    (IF f.temp_max THEN <<ApiParams[1]>> ELSE <<>>) \o
    (IF f.temp_min THEN <<ApiParams[2]>> ELSE <<>>) \o
    (IF f.precipitation THEN <<ApiParams[3]>> ELSE <<>>)

\* base_params and the endpoint, as app.py builds them
BuildParamsApp(f, cl) ==
    LET base == [latitude |-> Latitudes(cl), longitude |-> Longitudes(cl),
                 daily |-> ApiParams]
    IN IF f.forecast_mode = Weather
       THEN base @@ [endpoint |-> "https://api.open-meteo.com/v1/forecast",
                     forecast_days |-> FormForecastDays(f), timezone |-> "auto"]
       ELSE IF f.forecast_mode = Seasonal
       THEN base @@ [endpoint |-> "https://open-meteo.com/en/docs/seasonal-forecast-api",
                     models |-> "ecmwf_ifs",
                     forecast_months |-> ForecastMonths(f.forecast_length)]
       ELSE base @@ [endpoint |-> "https://climate-api.open-meteo.com/v1/climate",
                     start_date |-> f.start_date, end_date |-> f.end_date,
                     models |-> f.model]

\* base_params and the endpoint, as main.py builds them
BuildParamsMain(f, cl) ==
    LET base == [latitude |-> Latitudes(cl), longitude |-> Longitudes(cl),
                 daily |-> RequestedDaily(f)]
    IN IF f.forecast_mode = Weather
       THEN base @@ [endpoint |-> "https://api.open-meteo.com/v1/forecast",
                     forecast_days |-> IF f.forecast_type = "Jours fixes"
                                       THEN f.forecast_days ELSE MaxForecastDays,
                     timezone |-> "auto"]
       ELSE IF f.forecast_mode = Seasonal
       THEN base @@ [endpoint |-> "https://seasonal-api.open-meteo.com/v1/seasonal",
                     forecast_months |-> ForecastMonths(f.forecast_length),
                     ensemble |-> "true"]
       ELSE base @@ [endpoint |-> "https://climate-api.open-meteo.com/v1/climate",
                     start_date |-> f.start_date, end_date |-> f.end_date,
                     models |-> f.model]

BuildParams(v, f, cl) == IF v = "app" THEN BuildParamsApp(f, cl) ELSE BuildParamsMain(f, cl)

\* st.warning(f"Données invalides pour {lat},{lon}")
InvalidDataWarning(lat, lon) ==
    [level |-> "warning", text |-> "Données invalides pour {lat},{lon}",
     lat |-> lat, lon |-> lon]

\* app.py: not isinstance(forecast, dict) or 'daily' not in forecast; main.py
\* has no such check
SkipsLocation(v, forecast) ==
    v = "app" /\ (~isdict(forecast) \/ ~haskey(forecast, "daily"))

\* the sequence without its element of position i
Without(seq, i) == SubSeq(seq, 1, i - 1) \o SubSeq(seq, i + 1, Len(seq))

\* the mutant of LoopLocations that drops a skipped element from the response,
\* so that the elements after it are paired with the coordinates before theirs
RECURSIVE LoopLocations_Shifted(_, _, _, _, _, _, _)
LoopLocations_Shifted(v, items, lats, lons, lmap, mode, idx) ==
    IF idx > Len(lats) \/ idx > Len(items)
    THEN [dfs |-> <<>>, warnings |-> <<>>, raised |-> <<>>]
    ELSE IF SkipsLocation(v, items[idx])
    THEN LET rest == LoopLocations_Shifted(v, Without(items, idx), lats, lons, lmap, mode, idx)
         IN [rest EXCEPT !.warnings = <<InvalidDataWarning(lats[idx], lons[idx])>> \o @]
    ELSE LET r == create_dataframe(v, items[idx], lats[idx], lons[idx],
                                   LocaliteOf(lmap, lats[idx], lons[idx]), mode)
         IN IF ~r.ok THEN [dfs |-> <<>>, warnings |-> <<>>, raised |-> <<r>>]
            ELSE LET rest == LoopLocations_Shifted(v, items, lats, lons, lmap, mode, idx + 1)
                 IN [rest EXCEPT !.dfs = <<r.value>> \o @]

\* the loop over enumerate(zip(latitude, longitude)) of the list branch, from
\* index idx on: the tables built, the warnings given, and the exception that
\* ended the loop, if one did
RECURSIVE LoopLocations(_, _, _, _, _, _, _)
LoopLocations(v, items, lats, lons, lmap, mode, idx) ==
    IF idx > Len(lats) \/ idx > Len(items)
    THEN [dfs |-> <<>>, warnings |-> <<>>, raised |-> <<>>]
    ELSE IF SkipsLocation(v, items[idx])
    THEN LET rest == LoopLocations(v, items, lats, lons, lmap, mode, idx + 1)
         IN [rest EXCEPT !.warnings = <<InvalidDataWarning(lats[idx], lons[idx])>> \o @]
    ELSE LET r == create_dataframe(v, items[idx], lats[idx], lons[idx],
                                   LocaliteOf(lmap, lats[idx], lons[idx]), mode)
         IN IF ~r.ok THEN [dfs |-> <<>>, warnings |-> <<>>, raised |-> <<r>>]
            ELSE LET rest == LoopLocations(v, items, lats, lons, lmap, mode, idx + 1)
                 IN [rest EXCEPT !.dfs = <<r.value>> \o @]

\* the mutant of SingleLocation that skips an object it cannot read, with the
\* warning of the list branch
SingleLocation_Tolerant(v, d, lats, lons, lmap, mode) ==
    LET r == create_dataframe(v, d, lats[1], lons[1], LocaliteOf(lmap, lats[1], lons[1]), mode)
    IN IF r.ok THEN [dfs |-> <<r.value>>, warnings |-> <<>>, raised |-> <<>>]
       ELSE [dfs |-> <<>>, warnings |-> <<InvalidDataWarning(lats[1], lons[1])>>,
             raised |-> <<>>]

\* the branch of a response that is not a list
SingleLocation(v, d, lats, lons, lmap, mode) ==
    LET r == create_dataframe(v, d, lats[1], lons[1], LocaliteOf(lmap, lats[1], lons[1]), mode)
        one == IF r.ok THEN [dfs |-> <<r.value>>, warnings |-> <<>>, raised |-> <<>>]
               ELSE [dfs |-> <<>>, warnings |-> <<>>, raised |-> <<r>>]
    IN IF v = "main" THEN one
       ELSE IF ~(isdict(d))
       THEN [dfs |-> <<>>, warnings |-> <<>>,
             raised |-> <<Raise("TypeError", "argument is not iterable")>>]
       ELSE IF ~haskey(d, "daily")
       THEN [dfs |-> <<>>, warnings |-> <<>>,
             raised |-> <<Raise("ValueError",
                          "Structure de réponse API invalide : clé 'daily' manquante")>>]
       ELSE one

\* both branches of the normalization
NormalizeResponse(v, d, lats, lons, lmap, mode) ==
    IF islist(d) THEN LoopLocations(v, d.items, lats, lons, lmap, mode, 1)
    ELSE SingleLocation(v, d, lats, lons, lmap, mode)

----------------------------------------------------------------------------
(* The inputs of a run *)

\* a missing cell of a spreadsheet (NaN): no text over Chars equals it
NA == <<"nan">>

\* the options of the model selectbox
ModelOptions(v) ==
    IF v = "app" THEN {"MRI_AGCM3_2_S", "FGOALS_f3_H", "CMCC_CM2_VHR4"}
    ELSE {"ONACC-MRI_AGCM3_2_S", "ONACC-FGOALS_f3_H", "ONACC-CMCC_CM2_VHR4"}

\* the model the selectbox shows first
DefaultModel(v) == IF v = "app" THEN "MRI_AGCM3_2_S" ELSE "ONACC-MRI_AGCM3_2_S"

\* the forms with the given coordinate texts, modes and checkbox values, the
\* other widgets left at the value they show first
FormsWith(v, texts, modes, toggles) ==
    {[coords |-> t, forecast_mode |-> m,
      forecast_type |-> "Jours fixes", forecast_days |-> 7, date_range |-> <<>>,
      forecast_length |-> "45 days",
      start_date |-> "2020-01-01", end_date |-> "2040-01-01", model |-> DefaultModel(v),
      temp_max |-> g[1], temp_min |-> g[2], precipitation |-> g[3]] :
        t \in texts, m \in modes, g \in toggles}

AllToggles == BOOLEAN \X BOOLEAN \X BOOLEAN
AllChecked == {<<TRUE, TRUE, TRUE>>}

\* the variable keys a location's "daily" object may carry
PlainKeys == {ApiParams[k] : k \in 1..Len(ApiParams)}
MeanKeys == {Mean(ApiParams[k]) : k \in 1..Len(ApiParams)}
KeySets == {{}, PlainKeys \cup MeanKeys}

\* a "daily" object of n dates: the dates 1..n under "time" and, under each
\* variable key, n values that name the key they were read from
Daily(n, keys) ==
    JDict([k \in {"time"} \cup keys |->
              IF k = "time" THEN [i \in 1..n |-> i] ELSE [i \in 1..n |-> k]])

NoItems == [k \in {} |-> 0]

\* the JSON objects of a response
ValidObjects == {JDict([k \in {"daily"} |-> Daily(n, keys)]) : n \in 1..MaxDays, keys \in KeySets}
EmptyObject == JDict(NoItems)
ReasonObject == JDict([k \in {"error", "reason"} |-> IF k = "error" THEN "true" ELSE "reason"])
NoTimeObject == JDict([k \in {"daily"} |-> JDict(NoItems)])
Objects == ValidObjects \cup {EmptyObject, ReasonObject, NoTimeObject}

\* the elements of a list response
Elements == Objects \cup {JNull}

RECURSIVE ListsOfLen(_)
ListsOfLen(n) ==
    IF n = 0 THEN {<<>>}
    ELSE {Append(l, e) : l \in ListsOfLen(n - 1), e \in Elements}

Min(a, b) == IF a <= b THEN a ELSE b

\* the bodies of a response to a request for n locations: <<>> is a body that
\* is no JSON text, and a list has no more elements than locations were asked
Bodies(n) ==
    {<<>>} \cup {<<o>> : o \in Objects \cup {JNull}}
    \cup {<<JList(l)>> : l \in UNION {ListsOfLen(k) : k \in 0..Min(n, MaxItems)}}

\* the bodies of the responses whose status is not 200
ErrorBodies == {<<>>, <<JNull>>, <<EmptyObject>>, <<ReasonObject>>, <<JList(<<>>)>>}

\* the status codes of the responses
StatusCodes == {200, 400, 401, 403, 404, 500, 503}

Responses(n) ==
    [status_code : {200}, body : Bodies(n)]
    \cup [status_code : StatusCodes \ {200}, body : ErrorBodies]

----------------------------------------------------------------------------
(* The script run *)

NoSession == [coordinates |-> <<>>, selected_locations |-> <<>>]

Init ==
    /\ variant \in {"app", "main"}
    /\ uploaded_file = <<>>
    /\ session = NoSession
    /\ form = <<>>
    /\ pc = "idle"
    /\ coords_list = <<>>
    /\ localite_map = NoItems
    /\ base_params = <<>>
    /\ requests = <<>>
    /\ response = <<>>
    /\ data = <<>>
    /\ dfs = <<>>
    /\ df = <<>>
    /\ messages = <<>>
    /\ chart = <<>>
    /\ exports = <<>>

\* nothing computed or displayed by the handler
FreshRun ==
    /\ coords_list' = <<>>
    /\ localite_map' = NoItems
    /\ base_params' = <<>>
    /\ requests' = <<>>
    /\ response' = <<>>
    /\ data' = <<>>
    /\ dfs' = <<>>
    /\ df' = <<>>
    /\ messages' = <<>>
    /\ chart' = <<>>
    /\ exports' = <<>>

\* the user presses "Générer la prévision" with the form filled as f
Submit(forms) ==
    /\ pc = "idle"
    /\ \E f \in forms : form' = <<f>>
    /\ pc' = "parse"
    /\ FreshRun
    /\ UNCHANGED <<variant, uploaded_file, session>>

\* st.warning(...); st.stop()
Stop(warning) ==
    /\ messages' = Append(messages, warning)
    /\ pc' = "stopped"

\* an exception reaches "except Exception as e: st.error(...)"
ErrorPrefix(v) ==
    IF v = "app" THEN "Erreur : " ELSE "Erreur lors de la récupération des données : "

\* the mutant of Fail that displays the error twice
Fail_Duplicate(e) ==
    /\ messages' = Append(Append(messages,
                                 [level |-> "error", prefix |-> ErrorPrefix(variant)] @@ e),
                          [level |-> "error", prefix |-> ErrorPrefix(variant)] @@ e)
    /\ pc' = "failed"

Fail(e) ==
    /\ messages' = Append(messages,
                          [level |-> "error", prefix |-> ErrorPrefix(variant)] @@ e)
    /\ pc' = "failed"

InvalidFormatWarning(pair) ==
    [level |-> "warning",
     text |-> "Format de coordonnées invalide pour la paire : {pair}", pair |-> pair]

NoCoordinatesWarning ==
    [level |-> "warning", text |-> "Aucune coordonnée valide fournie !"]

\* the mutant of ParseCoordinates without "if not coords_list: st.stop()"
ParseCoordinates_NoEmptyCheck ==
    /\ pc = "parse"
    /\ LET coords == form[1].coords
           ps == IF coords # <<>> THEN pairs(coords) ELSE <<>>
           bad == FirstInvalid(ps)
       IN IF bad # 0
          THEN /\ Stop(InvalidFormatWarning(ps[bad]))
               /\ coords_list' = ExtendAll(SubSeq(ps, 1, bad - 1))
          ELSE /\ coords_list' = ExtendAll(ps)
               /\ pc' = "build"
               /\ UNCHANGED messages
    /\ UNCHANGED <<variant, uploaded_file, session, form, localite_map, base_params, requests,
                   response, data, dfs, df, chart, exports>>

\* the handler from "coords_list = []" to the second st.stop(): the pairs are
\* checked in order, and the first of them that has not two tokens stops the run
ParseCoordinates ==
    /\ pc = "parse"
    /\ LET coords == form[1].coords
           ps == IF coords # <<>> THEN pairs(coords) ELSE <<>>
           bad == FirstInvalid(ps)
       IN IF bad # 0
          THEN /\ Stop(InvalidFormatWarning(ps[bad]))
               /\ coords_list' = ExtendAll(SubSeq(ps, 1, bad - 1))
          ELSE IF ExtendAll(ps) = <<>>
          THEN /\ Stop(NoCoordinatesWarning)
               /\ coords_list' = <<>>
          ELSE /\ coords_list' = ExtendAll(ps)
               /\ pc' = "build"
               /\ UNCHANGED messages
    /\ UNCHANGED <<variant, uploaded_file, session, form, localite_map, base_params, requests,
                   response, data, dfs, df, chart, exports>>

\* the handler from "localite_map = {}" to the request's parameters
BuildRequest ==
    /\ pc = "build"
    /\ localite_map' = IF session.selected_locations # <<>>
                       THEN BuildLocaliteMap(session.selected_locations)
                       ELSE NoItems
    /\ base_params' = <<BuildParams(variant, form[1], coords_list)>>
    /\ pc' = "call"
    /\ UNCHANGED <<variant, uploaded_file, session, form, coords_list, requests, response, data,
                   dfs, df, messages, chart, exports>>

\* the mutant of CallApi that sends the request once for every coordinate pair
CallApi_PerCoordinate(responses) ==
    /\ pc = "call"
    /\ requests' = requests \o [i \in 1..Len(base_params[1].latitude) |-> base_params[1]]
    /\ \/ /\ \E r \in responses : response' = <<r>>
          /\ pc' = "decode"
          /\ UNCHANGED messages
       \/ /\ Fail(Raise("ConnectionError", "Max retries exceeded"))
          /\ UNCHANGED response
    /\ UNCHANGED <<variant, uploaded_file, session, form, coords_list, localite_map, base_params,
                   data, dfs, df, chart, exports>>

\* requests.get(endpoint, params=base_params): the request goes out, and either
\* a response comes back or the call raises
CallApi(responses) ==
    /\ pc = "call"
    /\ requests' = Append(requests, base_params[1])
    /\ \/ /\ \E r \in responses : response' = <<r>>
          /\ pc' = "decode"
          /\ UNCHANGED messages
       \/ /\ Fail(Raise("ConnectionError", "Max retries exceeded"))
          /\ UNCHANGED response
    /\ UNCHANGED <<variant, uploaded_file, session, form, coords_list, localite_map, base_params,
                   data, dfs, df, chart, exports>>

\* the exception response.json() ends in when the body is no JSON text: app.py
\* catches the JSONDecodeError and raises its own ValueError
DecodeError(v) ==
    IF v = "app" THEN Raise("ValueError", "Réponse API invalide (non JSON)")
    ELSE Raise("JSONDecodeError", "Expecting value: line 1 column 1 (char 0)")

\* the mutant of DecodeResponse in which app.py looks at the status code before
\* it decodes the body
DecodeResponse_StatusFirst ==
    /\ pc = "decode"
    /\ IF variant = "app" /\ response[1].status_code # 200
       THEN /\ Fail([ok |-> FALSE, exc |-> "ValueError"]
                    @@ MappedOrGeneric(response[1].status_code))
            /\ UNCHANGED data
       ELSE IF response[1].body = <<>>
       THEN /\ Fail(DecodeError(variant))
            /\ UNCHANGED data
       ELSE /\ data' = response[1].body
            /\ pc' = IF variant = "app" THEN "status" ELSE "normalize"
            /\ UNCHANGED messages
    /\ UNCHANGED <<variant, uploaded_file, session, form, coords_list, localite_map, base_params,
                   requests, response, dfs, df, chart, exports>>

\* data = response.json()
DecodeResponse ==
    /\ pc = "decode"
    /\ IF response[1].body = <<>>
       THEN /\ Fail(DecodeError(variant))
            /\ UNCHANGED data
       ELSE /\ data' = response[1].body
            /\ pc' = IF variant = "app" THEN "status" ELSE "normalize"
            /\ UNCHANGED messages
    /\ UNCHANGED <<variant, uploaded_file, session, form, coords_list, localite_map, base_params,
                   requests, response, dfs, df, chart, exports>>

\* app.py: if response.status_code != 200: raise ValueError(get_api_error(...))
CheckStatus ==
    /\ pc = "status"
    /\ IF response[1].status_code # 200
       THEN Fail([ok |-> FALSE, exc |-> "ValueError"]
                 @@ get_api_error(data[1], response[1].status_code))
       ELSE /\ pc' = "normalize"
            /\ UNCHANGED messages
    /\ UNCHANGED <<variant, uploaded_file, session, form, coords_list, localite_map, base_params,
                   requests, response, data, dfs, df, chart, exports>>

\* the handler from "dfs = []" to the last dfs.append
Normalize ==
    /\ pc = "normalize"
    /\ LET n == NormalizeResponse(variant, data[1], base_params[1].latitude,
                                  base_params[1].longitude, localite_map,
                                  form[1].forecast_mode)
       IN /\ dfs' = n.dfs
          /\ IF n.raised # <<>>
             THEN /\ messages' = (messages \o n.warnings) \o
                        <<[level |-> "error", prefix |-> ErrorPrefix(variant)] @@ n.raised[1]>>
                  /\ pc' = "failed"
             ELSE /\ messages' = messages \o n.warnings
                  /\ pc' = "concat"
    /\ UNCHANGED <<variant, uploaded_file, session, form, coords_list, localite_map, base_params,
                   requests, response, data, df, chart, exports>>

\* df = pd.concat(dfs, ignore_index=True)
Concat ==
    /\ pc = "concat"
    /\ LET r == concat(dfs)
       IN IF r.ok
          THEN /\ df' = <<r.value>>
               /\ pc' = "annotate"
               /\ UNCHANGED messages
          ELSE /\ Fail(r)
               /\ UNCHANGED df
    /\ UNCHANGED <<variant, uploaded_file, session, form, coords_list, localite_map, base_params,
                   requests, response, data, dfs, chart, exports>>

\* df = add_metadata(df, forecast_mode, {"model": ..., "duration": ...})
Annotate ==
    /\ pc = "annotate"
    /\ df' = <<add_metadata(df[1], form[1].forecast_mode,
                            [model |-> IF form[1].forecast_mode = Climate
                                       THEN form[1].model ELSE "None",
                             duration |-> IF form[1].forecast_mode = Seasonal
                                          THEN form[1].forecast_length ELSE "None"])>>
    /\ pc' = "render"
    /\ UNCHANGED <<variant, uploaded_file, session, form, coords_list, localite_map, base_params,
                   requests, response, data, dfs, messages, chart, exports>>

\* fig = create_visualization(df, forecast_mode); st.plotly_chart(fig)
Render ==
    /\ pc = "render"
    /\ chart' = df
    /\ pc' = "export"
    /\ UNCHANGED <<variant, uploaded_file, session, form, coords_list, localite_map, base_params,
                   requests, response, data, dfs, df, messages, exports>>

\* export_data(df): the CSV and the Excel download of the table
Export ==
    /\ pc = "export"
    /\ exports' = <<[format |-> "csv", table |-> df[1]], [format |-> "xlsx", table |-> df[1]]>>
    /\ pc' = "done"
    /\ UNCHANGED <<variant, uploaded_file, session, form, coords_list, localite_map, base_params,
                   requests, response, data, dfs, df, messages, chart>>

----------------------------------------------------------------------------
(* The spreadsheet import block *)

RequiredColumns == {"localite", "latitude", "longitude", "region", "country"}

\* the name of the locality on row i of a spreadsheet
Name(i) == CASE i = 1 -> "A" [] i = 2 -> "B" [] OTHER -> "C"

LatCells == {<<"1">>, <<"2">>, NA}
LonCells == {<<"1">>}
Regions == {"Nord", "Sud"}
Countries == {"CM"}

RECURSIVE RowsOfLen(_)
RowsOfLen(n) ==
    IF n = 0 THEN {<<>>}
    ELSE {Append(rs, [localite |-> Name(n), latitude |-> lat, longitude |-> lon,
                      region |-> reg, country |-> ctr]) :
            rs \in RowsOfLen(n - 1), lat \in LatCells, lon \in LonCells,
            reg \in Regions, ctr \in Countries}

\* the rows of a spreadsheet that has not the column c
WithoutColumn(rows, c) ==
    [i \in 1..Len(rows) |-> [k \in (DOMAIN rows[i]) \ {c} |-> rows[i][k]]]

\* the spreadsheets: the well-formed ones, the ones that lack a required
\* column, and one that pd.read_excel cannot read
Files ==
    {[readable |-> TRUE, columns |-> RequiredColumns, rows |-> rs] :
        rs \in UNION {RowsOfLen(n) : n \in 0..MaxRows}}
    \cup {[readable |-> TRUE, columns |-> RequiredColumns \ {c},
           rows |-> WithoutColumn(rs, c)] :
            c \in RequiredColumns, rs \in UNION {RowsOfLen(n) : n \in 0..MaxRows}}
    \cup {[readable |-> FALSE, columns |-> {}, rows |-> <<>>]}

\* latitude cells that hold a text and not a number: a decimal comma, a
\* leading blank, a blank alone
TextCells == {<<"1", ",", "2">>, <<" ", "1">>, <<" ">>}

RECURSIVE TextRowsOfLen(_)
TextRowsOfLen(n) ==
    IF n = 0 THEN {<<>>}
    ELSE {Append(rs, [localite |-> Name(n), latitude |-> lat, longitude |-> <<"1">>,
                      region |-> "Nord", country |-> "CM"]) :
            rs \in TextRowsOfLen(n - 1), lat \in TextCells}

\* the well-formed spreadsheets whose latitude column holds texts
TextFiles ==
    {[readable |-> TRUE, columns |-> RequiredColumns, rows |-> rs] :
        rs \in UNION {TextRowsOfLen(n) : n \in 1..MaxRows}}

\* the spreadsheets the import block accepts
WellFormedFiles == {f \in Files : f.readable /\ RequiredColumns \subseteq f.columns}

\* the rows of the given indices, in order
RECURSIVE RowsAt(_, _, _)
RowsAt(rows, kept, i) ==
    IF i > Len(rows) THEN <<>>
    ELSE (IF i \in kept THEN <<rows[i]>> ELSE <<>>) \o RowsAt(rows, kept, i + 1)

\* df_locations.dropna(subset=['latitude', 'longitude'])
dropna(rows) ==
    RowsAt(rows, {i \in 1..Len(rows) : rows[i].latitude # NA /\ rows[i].longitude # NA}, 1)

\* df_locations[df_locations[column].isin(selected)] when selected is not empty
FilterBy(rows, column, selected) ==
    IF selected # {}
    THEN RowsAt(rows, {i \in 1..Len(rows) : rows[i][column] \in selected}, 1)
    ELSE rows

\* the rows the data editor returns when the user deletes the rows in deleted
Undeleted(rows, deleted) == RowsAt(rows, (1..Len(rows)) \ deleted, 1)

\* f"{row['latitude']},{row['longitude']}" of every row
SelectedCoords(rows) == [i \in 1..Len(rows) |-> rows[i].latitude \o <<",">> \o rows[i].longitude]

\* the session the import block leaves, for a spreadsheet with the required
\* columns, the two filters and the rows deleted in the editor
ImportedSession(file, selected_regions, selected_countries, deleted) ==
    LET located == dropna(file.rows)
        shown == FilterBy(FilterBy(located, "region", selected_regions),
                          "country", selected_countries)
        edited_df == Undeleted(shown, deleted)
        selected_locations == dropna(edited_df)
    IN [coordinates |-> join(PairSep, SelectedCoords(selected_locations)),
        selected_locations |->
            [i \in 1..Len(selected_locations) |->
                [localite |-> selected_locations[i].localite,
                 latitude |-> selected_locations[i].latitude,
                 longitude |-> selected_locations[i].longitude]]]

SchemaError ==
    [level |-> "error",
     text |-> "Structure de fichier incorrecte! Les colonnes requises sont : localite, latitude, longitude, region, country"]

ReadError == [level |-> "error", text |-> "Erreur de lecture du fichier : {str(e)}"]

\* the mutant of Import in which a spreadsheet without a required column
\* empties the session
Import_SchemaErrorClears(files) ==
    /\ pc = "idle"
    /\ \E file \in files :
          /\ uploaded_file' = <<[readable |-> file.readable, columns |-> file.columns]>>
          /\ IF ~file.readable
             THEN /\ messages' = <<ReadError>>
                  /\ UNCHANGED session
             ELSE IF ~(RequiredColumns \subseteq file.columns)
             THEN /\ messages' = <<SchemaError>>
                  /\ session' = NoSession
             ELSE /\ messages' = <<>>
                  /\ \E selected_regions \in SUBSET {file.rows[i].region : i \in 1..Len(file.rows)},
                        selected_countries \in SUBSET {file.rows[i].country : i \in 1..Len(file.rows)},
                        deleted \in SUBSET (1..Len(file.rows)) :
                           session' = ImportedSession(file, selected_regions,
                                                      selected_countries, deleted)
    /\ UNCHANGED <<variant, form, pc, coords_list, localite_map, base_params, requests,
                   response, data, dfs, df, chart, exports>>

\* a run in which the user has uploaded a spreadsheet, chosen the filters and
\* edited the rows, and has not submitted the form
Import(files) ==
    /\ pc = "idle"
    /\ \E file \in files :
          /\ uploaded_file' = <<[readable |-> file.readable, columns |-> file.columns]>>
          /\ IF ~file.readable
             THEN /\ messages' = <<ReadError>>
                  /\ UNCHANGED session
             ELSE IF ~(RequiredColumns \subseteq file.columns)
             THEN /\ messages' = <<SchemaError>>
                  /\ UNCHANGED session
             ELSE /\ messages' = <<>>
                  /\ \E selected_regions \in SUBSET {file.rows[i].region : i \in 1..Len(file.rows)},
                        selected_countries \in SUBSET {file.rows[i].country : i \in 1..Len(file.rows)},
                        deleted \in SUBSET (1..Len(file.rows)) :
                           session' = ImportedSession(file, selected_regions,
                                                      selected_countries, deleted)
    /\ UNCHANGED <<variant, form, pc, coords_list, localite_map, base_params, requests,
                   response, data, dfs, df, chart, exports>>

\* the user acts on the page after a run that ended: the script starts over,
\* and nothing of the last submission is displayed any more
Rerun ==
    /\ pc \in {"done", "stopped", "failed"}
    /\ pc' = "idle"
    /\ form' = <<>>
    /\ FreshRun
    /\ UNCHANGED <<variant, uploaded_file, session>>

----------------------------------------------------------------------------
(* The specifications *)

\* the forms of the pipeline: the coordinate text is the session's, or typed
PipelineForms ==
    FormsWith(variant, {session.coordinates} \cup TextsUpTo(MaxTypedLen), Modes, AllChecked)

Next ==
    \/ Import(WellFormedFiles)
    \/ Rerun
    \/ Submit(PipelineForms)
    \/ ParseCoordinates
    \/ BuildRequest
    \/ CallApi(Responses(Len(base_params[1].latitude)))
    \/ DecodeResponse
    \/ CheckStatus
    \/ Normalize
    \/ Concat
    \/ Annotate
    \/ Render
    \/ Export

Spec == Init /\ [][Next]_vars

\* the forms of the parsing specification: every text over Chars up to
\* MaxTextLen, in one mode
ParseForms == FormsWith(variant, TextsUpTo(MaxTextLen), {Weather}, AllChecked)

\* the response of the parsing specification, which ends at the request
NoJsonResponse == {[status_code |-> 200, body |-> <<>>]}

NextParse ==
    \/ Submit(ParseForms)
    \/ ParseCoordinates
    \/ BuildRequest
    \/ CallApi(NoJsonResponse)
    \/ DecodeResponse
    \/ Rerun

SpecParse == Init /\ [][NextParse]_vars

\* the forms of the request specification: the session's text or a typed one,
\* in every mode and with every choice of the three checkboxes
RequestForms ==
    FormsWith(variant, {session.coordinates} \cup TextsUpTo(MaxTypedLen), Modes, AllToggles)

NextRequest ==
    \/ Import(WellFormedFiles)
    \/ Rerun
    \/ Submit(RequestForms)
    \/ ParseCoordinates
    \/ BuildRequest
    \/ CallApi(NoJsonResponse)
    \/ DecodeResponse

SpecRequest == Init /\ [][NextRequest]_vars

\* the forms of the import specification: the coordinate text is the session's
ImportForms == FormsWith(variant, {session.coordinates}, {Weather}, AllChecked)

\* the responses of the import specification: status 200 and one object with
\* data for each location asked for
ImportResponses(n) ==
    {[status_code |-> 200, body |-> <<JList(l)>>] : l \in [1..n -> ValidObjects]}

\* the uploads of the import specification: every spreadsheet, as the first
\* upload or after a spreadsheet that was accepted
ImportFiles ==
    IF uploaded_file = <<>> \/ [readable |-> TRUE, columns |-> RequiredColumns] = uploaded_file[1]
    THEN Files \cup TextFiles ELSE {}

\* the import block over every spreadsheet, and the handler up to the
\* per-location tables
NextImport ==
    \/ Import(ImportFiles)
    \/ Rerun
    \/ Submit(ImportForms)
    \/ ParseCoordinates
    \/ BuildRequest
    \/ CallApi(ImportResponses(Len(base_params[1].latitude)))
    \/ DecodeResponse
    \/ CheckStatus
    \/ Normalize

SpecImport == Init /\ [][NextImport]_vars

\* the two options of the radio "Période de prévision", the durations of the
\* selectbox, and the values of the date input: no date, or a first and a
\* last day
ForecastTypes == {"Jours fixes", "Plage personnalisée"}
FixedDays == {1, 3, 7, 10, 14}
DateRanges == {<<>>} \cup {<<a, b>> : a \in 1..MaxDate, b \in 1..MaxDate}

\* the forms of the duration specification: weather mode, one pair, a fixed
\* duration or a date range
DurationForms ==
    {[f EXCEPT !.forecast_days = d] :
        f \in FormsWith(variant, {<<"1", ",", "2">>}, {Weather}, AllChecked),
        d \in FixedDays}
    \cup {[f EXCEPT !.forecast_type = "Plage personnalisée", !.date_range = r] :
            f \in FormsWith(variant, {<<"1", ",", "2">>}, {Weather}, AllChecked),
            r \in {x \in DateRanges : x = <<>> \/ x[1] <= x[2]}}

NextDuration ==
    \/ Submit(DurationForms)
    \/ ParseCoordinates
    \/ BuildRequest
    \/ CallApi(NoJsonResponse)
    \/ DecodeResponse
    \/ Rerun

SpecDuration == Init /\ [][NextDuration]_vars

----------------------------------------------------------------------------
(* The claims *)

\* the handler has parsed the coordinates of the submitted form
Parsed == form # <<>> /\ pc \notin {"idle", "parse"}

\* nothing has been requested, computed or displayed
NothingProduced ==
    /\ requests = <<>>
    /\ response = <<>>
    /\ dfs = <<>>
    /\ df = <<>>
    /\ chart = <<>>
    /\ exports = <<>>

\* the fragments of a coordinate text, and those of them that are not blank
\* and have not exactly two tokens
Fragments(coords) == split(coords, PairSep)
Offending(coords) ==
    {i \in 1..Len(Fragments(coords)) :
        /\ strip(Fragments(coords)[i]) # <<>>
        /\ Len(split(Fragments(coords)[i], TokenSep)) # 2}

Least(S) == CHOOSE i \in S : \A j \in S : i <= j

\* C1: when a fragment of the coordinate text that is not blank has not
\* exactly two comma-separated tokens, the run stops with the one warning that
\* names the first such fragment (trimmed), and no request goes out and no
\* table, chart or export is produced, whatever the fragments before it.
C1_InvalidFragmentAborts ==
    (Parsed /\ Offending(form[1].coords) # {}) =>
        /\ pc = "stopped"
        /\ messages = <<[level |-> "warning",
                         text |-> "Format de coordonnées invalide pour la paire : {pair}",
                         pair |-> strip(Fragments(form[1].coords)[Least(Offending(form[1].coords))])]>>
        /\ base_params = <<>>
        /\ NothingProduced

\* C1's case: the run stopped at a fragment that follows well-formed ones
C1_Witness ==
    /\ pc = "stopped"
    /\ coords_list # <<>>
    /\ Offending(form[1].coords) # {}
    /\ "pair" \in DOMAIN messages[1]

\* C10: for a text of n fragments that each have exactly two tokens, the run
\* does not stop, coords_list holds the trimmed first and second token of the
\* i-th fragment at positions 2i-1 and 2i, and the request's latitude and
\* longitude lists have length n and hold these tokens in the input order.
C10_ParsedSequences ==
    LET coords == form[1].coords
        frs == Fragments(coords)
        tok(i, k) == strip(split(frs[i], TokenSep)[k])
    IN (/\ Parsed
        /\ coords # <<>>
        /\ \A i \in 1..Len(frs) : Len(split(frs[i], TokenSep)) = 2) =>
          /\ pc # "stopped"
          /\ coords_list = [j \in 1..(2 * Len(frs)) |->
                               IF j % 2 = 1 THEN tok((j + 1) \div 2, 1) ELSE tok(j \div 2, 2)]
          /\ base_params # <<>> =>
                /\ base_params[1].latitude = [i \in 1..Len(frs) |-> tok(i, 1)]
                /\ base_params[1].longitude = [i \in 1..Len(frs) |-> tok(i, 2)]

\* C10's case: a request for two pairs whose latitudes differ, from a text
\* with blanks around a token
C10_Witness ==
    /\ pc = "call"
    /\ Len(base_params[1].latitude) = 2
    /\ base_params[1].latitude[1] # base_params[1].latitude[2]
    /\ \A i \in 1..Len(Fragments(form[1].coords)) :
          Len(split(Fragments(form[1].coords)[i], TokenSep)) = 2
    /\ \E i \in 1..Len(Fragments(form[1].coords)) :
          strip(Fragments(form[1].coords)[i]) # Fragments(form[1].coords)[i]

\* the run is at the HTTP call or past it
AtCallOrPast == pc = "call" \/ requests # <<>>

\* one of the three checkboxes is ticked
SomeVariableRequested ==
    form[1].temp_max \/ form[1].temp_min \/ form[1].precipitation

\* C2, as stated: the run reaches the HTTP call only with at least one parsed
\* pair and at least one of the three variables requested.
C2_RequestNeedsPairAndVariable ==
    AtCallOrPast => (Len(coords_list) >= 2 /\ SomeVariableRequested)

\* C2, amended: the run reaches the HTTP call only with at least one parsed
\* pair, and the request then carries as many latitudes as longitudes, one per
\* pair; the checkboxes do not gate the call: main.py sends the ticked
\* variables in declaration order (none when none is ticked) and app.py sends
\* all three whatever is ticked.
C2_RequestNeedsPair ==
    /\ AtCallOrPast =>
          /\ Len(coords_list) >= 2
          /\ Len(base_params[1].latitude) = Len(coords_list) \div 2
          /\ Len(base_params[1].longitude) = Len(coords_list) \div 2
          /\ \A k \in 1..Len(ApiParams) :
                InSeq(ApiParams[k], base_params[1].daily) <=>
                    \/ variant = "app"
                    \/ k = 1 /\ form[1].temp_max
                    \/ k = 2 /\ form[1].temp_min
                    \/ k = 3 /\ form[1].precipitation
    /\ requests # <<>> => requests = base_params
    /\ (Parsed /\ Offending(form[1].coords) = {}
          /\ \A i \in 1..Len(Fragments(form[1].coords)) :
                strip(Fragments(form[1].coords)[i]) = <<>>) =>
          (pc = "stopped" /\ requests = <<>>)

\* C2's case: a request for two pairs has gone out with no checkbox ticked
C2_Witness ==
    /\ requests # <<>>
    /\ Len(requests[1].latitude) = 2
    /\ ~SomeVariableRequested
    /\ requests[1].daily = <<>>

----------------------------------------------------------------------------
(* The claims about the normalization of the response *)

\* the body was decoded and the run has gone through the normalization (in
\* app.py only a response of status 200 gets there)
Normalized ==
    /\ data # <<>>
    /\ pc \in {"concat", "annotate", "render", "export", "done", "failed"}
    /\ variant = "app" => response[1].status_code = 200

\* the positions of a list response the loop gets to
Processed ==
    {i \in 1..Len(data[1].items) : i <= Len(requests[1].latitude)}

HasData(o) == isdict(o) /\ haskey(o, "daily") /\ haskey(o.items["daily"], "time")
LacksDaily(o) == isdict(o) /\ ~haskey(o, "daily")
LacksTime(o) == isdict(o) /\ haskey(o, "daily") /\ ~haskey(o.items["daily"], "time")

\* a warning about the location of position i has been displayed
WarnedAbout(i) ==
    \E k \in 1..Len(messages) :
        /\ messages[k].level = "warning"
        /\ "lat" \in DOMAIN messages[k]
        /\ messages[k].lat = requests[1].latitude[i]
        /\ messages[k].lon = requests[1].longitude[i]

\* the table of the location of position i is among the per-location tables
TableOf(i) ==
    \E j \in 1..Len(dfs) :
        /\ Len(dfs[j].rows) = Len(data[1].items[i].items["daily"].items["time"])
        /\ \A r \in 1..Len(dfs[j].rows) :
              /\ dfs[j].rows[r].Latitude = requests[1].latitude[i]
              /\ dfs[j].rows[r].Longitude = requests[1].longitude[i]

\* the locations with data are all normalized, each of the others is warned
\* about, and the run has not failed if one location has data
OthersNormalized ==
    /\ \A i \in Processed : ~HasData(data[1].items[i]) => WarnedAbout(i)
    /\ \A i \in Processed : HasData(data[1].items[i]) => TableOf(i)
    /\ Len(dfs) = Cardinality({i \in Processed : HasData(data[1].items[i])})
    /\ (\E i \in Processed : HasData(data[1].items[i])) =>
          /\ pc # "failed"
          /\ df # <<>> => df[1].rows # <<>>

\* C3: in a list response whose elements have data or lack the `daily` key,
\* each element that lacks it is skipped with a warning, the tables of all the
\* others are built, and the run does not fail (and its table has rows) when
\* at least one location has data.
C3_MissingDailySkipped ==
    (/\ Normalized
     /\ islist(data[1])
     /\ \A i \in Processed : HasData(data[1].items[i]) \/ LacksDaily(data[1].items[i])
     /\ \E i \in Processed : LacksDaily(data[1].items[i]))
    => OthersNormalized

\* C4: in a list response whose elements have data or have `daily` without
\* `time`, each element without `time` is skipped with a warning, the tables
\* of all the others are built, and the run does not fail when at least one
\* location has data.
C4_MissingTimeSkipped ==
    (/\ Normalized
     /\ islist(data[1])
     /\ \A i \in Processed : HasData(data[1].items[i]) \/ LacksTime(data[1].items[i])
     /\ \E i \in Processed : LacksTime(data[1].items[i]))
    => OthersNormalized

\* the message displayed last
LastMessage == messages[Len(messages)]

\* C5: when the decoded body is a single object without the `daily` key, the
\* run fails and no table, chart or export exists; when the normalization is
\* what fails (always in main.py, for status 200 in app.py) the one message
\* displayed is the error of the missing `daily` key: app.py's "Structure de
\* réponse API invalide : clé 'daily' manquante", main.py's KeyError 'daily'.
C5_SingleWithoutDaily ==
    (data # <<>> /\ LacksDaily(data[1]) /\ pc \notin {"status", "normalize"}) =>
        /\ pc = "failed"
        /\ dfs = <<>> /\ df = <<>> /\ chart = <<>> /\ exports = <<>>
        /\ Normalized =>
              /\ Len(messages) = 1
              /\ messages[1].level = "error"
              /\ variant = "app" =>
                    /\ messages[1].exc = "ValueError"
                    /\ messages[1].text =
                          "Structure de réponse API invalide : clé 'daily' manquante"
              /\ variant = "main" =>
                    /\ messages[1].exc = "KeyError"
                    /\ messages[1].text = "'daily'"

\* C5's case: a response of status 200 whose body is an object without `daily`
\* has been through the normalization
C5_Witness ==
    /\ Normalized
    /\ LacksDaily(data[1])
    /\ response[1].status_code = 200
    /\ pc = "failed"

\* C6: the annotate, chart and export steps are reached only with at least
\* one per-location table, a failed run has no table, chart or export, and a
\* run that comes out of the normalization with no per-location table fails
\* at once with the error of the empty concatenation.
C6_NoTablesFails ==
    /\ [](/\ pc \in {"annotate", "render", "export", "done"} => (dfs # <<>> /\ df # <<>>)
          /\ pc = "failed" => (df = <<>> /\ chart = <<>> /\ exports = <<>>))
    /\ [][(pc = "concat" /\ dfs = <<>>) =>
            /\ pc' = "failed"
            /\ Len(messages') = Len(messages) + 1
            /\ messages'[Len(messages')].level = "error"
            /\ messages'[Len(messages')].exc = "ValueError"
            /\ messages'[Len(messages')].text = "No objects to concatenate"]_vars

\* C6's case: every location of a list response was skipped, and the run failed
C6_Witness ==
    /\ Normalized
    /\ islist(data[1])
    /\ Processed # {}
    /\ \A i \in Processed : WarnedAbout(i)
    /\ dfs = <<>>
    /\ pc = "failed"
    /\ LastMessage.text = "No objects to concatenate"

----------------------------------------------------------------------------
(* The claims about the errors of the response *)

\* the message of each status code, as C7 states it
CannedMessage(code) ==
    CASE code = 400 -> "Requête invalide - Vérifiez les paramètres"
      [] code = 401 -> "Authentification requise"
      [] code = 403 -> "Accès refusé"
      [] code = 404 -> "Endpoint introuvable"
      [] code = 500 -> "Erreur serveur"
      [] OTHER -> "Erreur HTTP {status_code}"

\* C7: a run whose response has a status other than 200 (and a body that is
\* JSON) ends failed, with the message of the status code: the canned text of
\* 400, 401, 403, 404 and 500, else the generic text with the code; a reason
\* of the body is in the message only when the body has one.
C7_StatusMessage ==
    (/\ pc \in {"done", "failed"}
     /\ response # <<>>
     /\ response[1].status_code # 200
     /\ data # <<>>) =>
        /\ pc = "failed"
        /\ LastMessage.level = "error"
        /\ LastMessage.text = CannedMessage(response[1].status_code)
        /\ response[1].status_code \notin {400, 401, 403, 404, 500} =>
              ("code" \in DOMAIN LastMessage /\ LastMessage.code = response[1].status_code)
        /\ (isdict(data[1]) /\ haskey(data[1], "reason")) =>
              ("reason" \in DOMAIN LastMessage
               /\ LastMessage.reason = data[1].items["reason"])
        /\ ~(isdict(data[1]) /\ haskey(data[1], "reason")) =>
              ("reason" \in DOMAIN LastMessage => LastMessage.reason = "Erreur inconnue")

\* C8: a response whose body is no JSON text fails the run at the decoding,
\* whatever its status code: the one message displayed is the decoding error
\* (app.py's "Réponse API invalide (non JSON)", main.py's JSONDecodeError),
\* and there is no decoded data, table, chart or export.
C8_UndecodableBodyFails ==
    (response # <<>> /\ response[1].body = <<>> /\ pc # "decode") =>
        /\ pc = "failed"
        /\ data = <<>> /\ dfs = <<>> /\ df = <<>> /\ chart = <<>> /\ exports = <<>>
        /\ Len(messages) = 1
        /\ messages[1].level = "error"
        /\ variant = "app" =>
              /\ messages[1].exc = "ValueError"
              /\ messages[1].text = "Réponse API invalide (non JSON)"
        /\ variant = "main" => messages[1].exc = "JSONDecodeError"

\* C8's case: a response of status 404 whose body is no JSON text has failed
\* the run of app.py
C8_Witness ==
    /\ variant = "app"
    /\ response # <<>>
    /\ response[1].body = <<>>
    /\ response[1].status_code = 404
    /\ pc = "failed"

\* the run has ended in an error
ErrorEnd == pc \in {"failed", "stopped"}

\* no step of the handler writes the session
SessionUntouched == [][pc # "idle" => session' = session]_vars

IsLocationWarning(m) ==
    /\ m.level = "warning"
    /\ m.text = "Données invalides pour {lat},{lon}"

----------------------------------------------------------------------------
(* The claims about the coordinates of a request *)

\* C11: a coordinate text that is empty or made of whitespace only stops the
\* run with the one warning that no valid coordinate was given, and no request
\* is built or sent and nothing is produced.
C11_BlankTextStops ==
    (Parsed /\ \A i \in 1..Len(form[1].coords) : form[1].coords[i] = " ") =>
        /\ pc = "stopped"
        /\ coords_list = <<>>
        /\ messages = <<[level |-> "warning",
                         text |-> "Aucune coordonnée valide fournie !"]>>
        /\ base_params = <<>>
        /\ NothingProduced

\* C11's case: a text of whitespace, not the empty text, has stopped the run
C11_Witness ==
    /\ pc = "stopped"
    /\ Len(form[1].coords) >= 2
    /\ \A i \in 1..Len(form[1].coords) : form[1].coords[i] = " "

\* C12: every latitude and every longitude of a request that has gone out is
\* a non-empty text.
C12_NoEmptyComponent ==
    requests # <<>> =>
        /\ \A i \in 1..Len(requests[1].latitude) : requests[1].latitude[i] # <<>>
        /\ \A i \in 1..Len(requests[1].longitude) : requests[1].longitude[i] # <<>>

----------------------------------------------------------------------------
(* The claims about the locality labels *)

\* the rows of the per-location tables and of the final table
TableRows ==
    UNION {{dfs[j].rows[r] : r \in 1..Len(dfs[j].rows)} : j \in 1..Len(dfs)}
    \cup (IF df = <<>> THEN {} ELSE {df[1].rows[r] : r \in 1..Len(df[1].rows)})

\* the rows of the session's selected locations whose trimmed coordinates are k
SessionRowsOf(k) ==
    {i \in 1..Len(session.selected_locations) :
        /\ strip(session.selected_locations[i].latitude) = k[1]
        /\ strip(session.selected_locations[i].longitude) = k[2]}

\* C13: once the locality index is built, its keys are the trimmed
\* (latitude, longitude) texts of the session's selected rows, each with the
\* name of the last row of that key; every row of a table carries the name
\* the index holds under exactly its (latitude, longitude) texts, and "N/A"
\* when the index has no such key (also when nothing was imported).
C13_LocalityLabel ==
    (form # <<>> /\ pc \notin {"idle", "parse", "build", "stopped"}) =>
        /\ \A k \in DOMAIN localite_map :
              /\ SessionRowsOf(k) # {}
              /\ localite_map[k] =
                    session.selected_locations[
                        CHOOSE i \in SessionRowsOf(k) : \A j \in SessionRowsOf(k) : j <= i].localite
        /\ \A i \in 1..Len(session.selected_locations) :
              <<strip(session.selected_locations[i].latitude),
                strip(session.selected_locations[i].longitude)>> \in DOMAIN localite_map
        /\ \A row \in TableRows :
              IF <<row.Latitude, row.Longitude>> \in DOMAIN localite_map
              THEN row.Localite = localite_map[<<row.Latitude, row.Longitude>>]
              ELSE row.Localite = "N/A"

\* C13's case: with two locations imported under different coordinates, the
\* final table has a row labelled with a stored name
C13_Witness ==
    /\ pc = "done"
    /\ Cardinality(DOMAIN localite_map) = 2
    /\ \E row \in TableRows : row.Localite # "N/A"

\* a miss: with locations imported, a typed pair that is not among them is
\* labelled "N/A" and the run goes on to its end
C13_WitnessMiss ==
    /\ pc = "done"
    /\ DOMAIN localite_map # {}
    /\ \E row \in TableRows : row.Localite = "N/A"

----------------------------------------------------------------------------
(* The claims about the spreadsheet import *)

\* the spreadsheet now in the uploader reads and lacks a required column
LacksRequiredColumn(f) ==
    /\ f # <<>>
    /\ f[1].readable
    /\ \E c \in {"localite", "latitude", "longitude", "region", "country"} :
          c \notin f[1].columns

\* C14: a run of the import block over a spreadsheet that lacks one of the
\* five required columns displays the schema error and nothing else, and
\* leaves the session values as they were, whatever rows the spreadsheet has.
C14_SchemaErrorRejects ==
    [][(pc = "idle" /\ pc' = "idle" /\ LacksRequiredColumn(uploaded_file')) =>
          /\ session' = session
          /\ messages' = <<[level |-> "error",
                            text |-> "Structure de fichier incorrecte! Les colonnes requises sont : localite, latitude, longitude, region, country"]>>]_vars

\* C14's case: after an import that selected locations, a spreadsheet without
\* the region column was uploaded, and the locations are still selected
C14_Witness ==
    /\ pc = "idle"
    /\ uploaded_file # <<>>
    /\ uploaded_file[1].columns = {"localite", "latitude", "longitude", "country"}
    /\ session.selected_locations # <<>>
    /\ messages # <<>>

----------------------------------------------------------------------------
(* The claims about the columns of the table *)

\* the value of a cell was read from the response under this key (the values
\* of a response name the key they stand under)
ReadFrom(row, column) ==
    IF column \in DOMAIN row /\ row[column] \in PlainKeys \cup MeanKeys
    THEN <<row[column]>> ELSE <<>>

\* C15: a cell of a variable column that was read from a `daily` object with
\* both the plain and the `_mean` key of the variable was read from the
\* `_mean` key in seasonal mode, and from the plain key in the other modes.
C15_SeasonalMean ==
    \A row \in TableRows : \A k \in 1..3 :
        ReadFrom(row, DfColumns[k]) # <<>> =>
            ReadFrom(row, DfColumns[k]) =
                <<IF form[1].forecast_mode = "Prévisions saisonnières"
                  THEN <<"temperature_2m_max_mean", "temperature_2m_min_mean",
                         "precipitation_sum_mean">>[k]
                  ELSE <<"temperature_2m_max", "temperature_2m_min",
                         "precipitation_sum">>[k]>>

\* the checkbox of the k-th variable is ticked
Requested(k) ==
    <<form[1].temp_max, form[1].temp_min, form[1].precipitation>>[k]

\* C16: every row of a table has the column of a variable exactly when the
\* variable was requested, whatever the response holds for the location: the
\* column of a requested variable that the response omits is there, its cells
\* undefined.
C16_RequestedColumns ==
    \A row \in TableRows : \A k \in 1..3 :
        /\ DfColumns[k] \in DOMAIN row <=> Requested(k)
        /\ (DfColumns[k] \in DOMAIN row /\ ReadFrom(row, DfColumns[k]) = <<>>) =>
              row[DfColumns[k]] \in {"None", "NaN"}

\* the column add_metadata adds after the mode's, and the form's value for it
ExtraColumn ==
    IF form[1].forecast_mode = "Projections climatiques"
    THEN <<[name |-> "Modèle climatique", value |-> form[1].model]>>
    ELSE IF form[1].forecast_mode = "Prévisions saisonnières"
    THEN <<[name |-> "Durée prévision", value |-> form[1].forecast_length]>>
    ELSE <<>>

\* C17: the annotation step appends to the table's columns the column of the
\* forecast mode and, after it, the model's column in climate-projection
\* mode, the duration's in seasonal mode, none in weather mode; every row
\* holds the active mode and the form's model or duration there, and its
\* cells under the columns the table had are the same as before.
C17_AddMetadata ==
    [][pc = "annotate" =>
          /\ df'[1].columns =
                df[1].columns \o <<"Type de prévision">> \o
                    [i \in 1..Len(ExtraColumn) |-> ExtraColumn[i].name]
          /\ Len(df'[1].rows) = Len(df[1].rows)
          /\ \A r \in 1..Len(df[1].rows) :
                /\ DOMAIN df'[1].rows[r] =
                      {df'[1].columns[c] : c \in 1..Len(df'[1].columns)}
                /\ df'[1].rows[r]["Type de prévision"] = form[1].forecast_mode
                /\ \A i \in 1..Len(ExtraColumn) :
                      df'[1].rows[r][ExtraColumn[i].name] = ExtraColumn[i].value
                /\ \A c \in DOMAIN df[1].rows[r] :
                      df'[1].rows[r][c] = df[1].rows[r][c]]_vars

\* C17's case: a table of two rows has been annotated in seasonal mode
C17_Witness ==
    /\ pc = "render"
    /\ form[1].forecast_mode = "Prévisions saisonnières"
    /\ Len(df[1].rows) >= 2
    /\ "Durée prévision" \in DOMAIN df[1].rows[2]

----------------------------------------------------------------------------
(* The claims about the parameters of the request *)

\* C18: the forecast_days of a request of weather mode is the duration
\* selected when the period is "Jours fixes", the number of days from the
\* first to the last day of the date range when a range is given, and the
\* longest duration, 16 days, when the period is a range and none is given.
C18_ForecastDays ==
    (requests # <<>> /\ form[1].forecast_mode = "Prévisions météo") =>
        requests[1].forecast_days =
            IF form[1].forecast_type = "Jours fixes" THEN form[1].forecast_days
            ELSE IF form[1].date_range # <<>>
                 THEN form[1].date_range[2] - form[1].date_range[1] + 1
                 ELSE 16

----------------------------------------------------------------------------
(* The claims about the import and the parsing together *)

\* the form submitted carries the coordinate text of an import that selected
\* at least one location
SubmittedImport ==
    /\ form # <<>>
    /\ session.selected_locations # <<>>
    /\ form[1].coords = session.coordinates

\* C19: the session's coordinate text is the "lat,lon" texts of the selected
\* rows joined with ", " in row order; when a form with that text is parsed
\* the run does not stop, the parsed pairs are the (trimmed) latitude and
\* longitude of the rows, in row order, and every row of a table is labelled
\* with a stored name, not with "N/A".
C19_ImportRoundTrip ==
    /\ session.coordinates =
          join(<<",", " ">>,
               [i \in 1..Len(session.selected_locations) |->
                   session.selected_locations[i].latitude \o <<",">>
                       \o session.selected_locations[i].longitude])
    /\ (SubmittedImport /\ Parsed) =>
          /\ pc # "stopped"
          /\ Len(coords_list) = 2 * Len(session.selected_locations)
          /\ \A i \in 1..Len(session.selected_locations) :
                /\ coords_list[2 * i - 1] = strip(session.selected_locations[i].latitude)
                /\ coords_list[2 * i] = strip(session.selected_locations[i].longitude)
          /\ \A row \in TableRows : row.Localite # "N/A"

----------------------------------------------------------------------------
(* The claims about the order of the steps *)

\* the place of a position in the order of the steps of a submission
StepNumber(p) ==
    CASE p = "idle" -> 0
      [] p = "parse" -> 1
      [] p = "build" -> 2
      [] p = "call" -> 3
      [] p = "decode" -> 4
      [] p = "status" -> 5
      [] p = "normalize" -> 6
      [] p = "concat" -> 7
      [] p = "annotate" -> 8
      [] p = "render" -> 9
      [] p = "export" -> 10
      [] OTHER -> 11

\* the submission is under way: the run has not ended
UnderWay == pc \in {"parse", "build", "call", "decode", "status", "normalize", "concat",
                    "annotate", "render", "export"}

\* the table has the annotation's column
Annotated(t) == \E c \in 1..Len(t.columns) : t.columns[c] = "Type de prévision"

\* C20: within one submission the steps occur in a fixed order and at most
\* once each (validation, one API call, normalization, annotation, chart,
\* export): every step of a run under way moves forward in that order; the
\* request goes out at the call step only, after the coordinates were
\* validated, and there is never a second one, whatever the number of
\* coordinates; the tables are built after the call, the chart is drawn
\* after the annotation and the exports after the chart; the chart and the
\* exports are of the annotated table.
C20_StepOrder ==
    /\ [](/\ Len(requests) <= 1
          /\ requests # <<>> => (coords_list # <<>> /\ FirstInvalid(pairs(form[1].coords)) = 0)
          /\ (dfs # <<>> \/ df # <<>>) => requests # <<>>
          /\ chart # <<>> => (df # <<>> /\ chart = df /\ Annotated(chart[1]))
          /\ exports # <<>> =>
                /\ chart # <<>>
                /\ \A e \in 1..Len(exports) :
                      exports[e].table = chart[1] /\ Annotated(exports[e].table))
    /\ [][UnderWay =>
            /\ StepNumber(pc') > StepNumber(pc)
            /\ requests' # requests => pc = "call"
            /\ dfs' # dfs => pc = "normalize"
            /\ df' # df => pc \in {"concat", "annotate"}
            /\ chart' # chart => pc = "render"
            /\ exports' # exports => pc = "export"]_vars

\* C20's case: a submission of two coordinate pairs has run to its end with
\* one request, the chart and the exports
C20_Witness ==
    /\ pc = "done"
    /\ Len(coords_list) = 4
    /\ Len(requests) = 1
    /\ chart # <<>>
    /\ exports # <<>>

----------------------------------------------------------------------------
(* The claims about the pairing of the rows and the coordinates *)

\* the positions of a list response a table was built from
Kept == {i \in Processed : HasData(data[1].items[i])}

\* the position the j-th table was built from, and the element there (for a
\* response that is no list: the first pair, and the response itself)
SourceOf(j) ==
    IF islist(data[1])
    THEN LET i == CHOOSE i \in Kept : Cardinality({k \in Kept : k <= i}) = j
         IN [index |-> i, element |-> data[1].items[i]]
    ELSE [index |-> 1, element |-> data[1]]

\* the row carries the coordinates of the requested pair of position i, and
\* the label the locality index holds for them
CarriesPair(row, i) ==
    /\ row.Latitude = requests[1].latitude[i]
    /\ row.Longitude = requests[1].longitude[i]
    /\ row.Localite =
          IF <<requests[1].latitude[i], requests[1].longitude[i]>> \in DOMAIN localite_map
          THEN localite_map[<<requests[1].latitude[i], requests[1].longitude[i]>>]
          ELSE "N/A"

\* the row is the r-th row built from the element: its date is the r-th of
\* the element, and it holds values read from the response exactly when the
\* element holds values
BuiltFrom(row, element, r) ==
    /\ row.Date = element.items["daily"].items["time"][r]
    /\ (\E k \in 1..3 : ReadFrom(row, DfColumns[k]) # <<>>)
          <=> (DOMAIN element.items["daily"].items # {"time"})

\* the rows of the tables before the j-th
RECURSIVE RowsBefore(_)
RowsBefore(j) == IF j = 1 THEN 0 ELSE RowsBefore(j - 1) + Len(dfs[j - 1].rows)

\* C21: when the normalization has ended without an exception, there is one
\* table for each element of the response with data that has a requested
\* pair at its position (for a single object: one table, of the first pair),
\* in the order of the positions; every row of the table built from the
\* element of a position carries the latitude, the longitude and the label
\* of the requested pair of that same position, also after a skipped element
\* and for a list shorter than the coordinates; the rows of the final table
\* are those rows, in order.
C21_RowPairAlignment ==
    (Normalized /\ pc # "failed") =>
        /\ Len(dfs) = IF islist(data[1]) THEN Cardinality(Kept) ELSE 1
        /\ \A j \in 1..Len(dfs) :
              /\ SourceOf(j).index <= Len(requests[1].latitude)
              /\ Len(dfs[j].rows) = Len(SourceOf(j).element.items["daily"].items["time"])
              /\ \A r \in 1..Len(dfs[j].rows) :
                    /\ CarriesPair(dfs[j].rows[r], SourceOf(j).index)
                    /\ BuiltFrom(dfs[j].rows[r], SourceOf(j).element, r)
        /\ df # <<>> =>
              /\ Len(df[1].rows) = RowsBefore(Len(dfs) + 1)
              /\ \A j \in 1..Len(dfs) : \A r \in 1..Len(dfs[j].rows) :
                    /\ CarriesPair(df[1].rows[RowsBefore(j) + r], SourceOf(j).index)
                    /\ BuiltFrom(df[1].rows[RowsBefore(j) + r], SourceOf(j).element, r)

\* C21's case: of two different pairs requested, the first element of the
\* list was skipped and the rows of the final table, built from the second
\* element, carry the second pair and its label
C21_Witness ==
    /\ pc = "done"
    /\ islist(data[1])
    /\ Len(requests[1].latitude) = 2
    /\ requests[1].latitude[1] # requests[1].latitude[2]
    /\ Len(data[1].items) = 2
    /\ ~HasData(data[1].items[1])
    /\ df[1].rows # <<>>
    /\ \A r \in 1..Len(df[1].rows) :
          /\ df[1].rows[r].Latitude = requests[1].latitude[2]
          /\ df[1].rows[r].Localite \notin {"N/A", df[1].rows[r].Latitude}
          /\ df[1].rows[r].Localite = session.selected_locations[2].localite

\* a list shorter than the coordinates: of two pairs requested, the rows are
\* of the first only
C21_WitnessShort ==
    /\ pc = "done"
    /\ islist(data[1])
    /\ Len(requests[1].latitude) = 2
    /\ requests[1].latitude[1] # requests[1].latitude[2]
    /\ Len(data[1].items) = 1
    /\ df[1].rows # <<>>
    /\ \A r \in 1..Len(df[1].rows) : df[1].rows[r].Latitude = requests[1].latitude[1]

====
